---- MODULE Spec2Model ----
(***************************************************************************)
(* Model of package csrf (src/csrf.go): the per-request Csrf context, the  *)
(* Generate middleware that issues tokens on GET requests and the Validate *)
(* route middleware that checks the token of an unsafe request.            *)
(*                                                                         *)
(* A request runs through the handler chain of its route:                  *)
(*   GET  route:  Generate -> real handler                                 *)
(*   POST route:  Generate -> Validate -> real handler                     *)
(* and the chain stops as soon as a handler has written the response.      *)
(*                                                                         *)
(* Strings that carry tokens are modelled by what the token codec sees in  *)
(* them: whether they decode, the keyed digest they carry and the          *)
(* timestamp they embed.  The keyed digest is symbolic: the tuple of the   *)
(* key and the message it was computed from.                               *)
(***************************************************************************)
EXTENDS Integers, Sequences, FiniteSets, TLC

VARIABLES opts, session, now, req, x, mapped, resp, pc, invoked,
          held, accepted, conc

vars == <<opts, session, now, req, x, mapped, resp, pc, invoked,
          held, accepted, conc>>

\* what the client holds and what was accepted so far (history), and the
\* requests that run Generate concurrently
aux == <<held, accepted, conc>>

(***************************************************************************)
(* Bounds of the model.                                                    *)
(***************************************************************************)
\* the clock runs over 0..MaxTime
MaxTime == 2

Times == 0 .. MaxTime

Secrets == {"k1", "k2"}

\* subject ids; the empty string is a string like any other
Ids == {"", "u1", "u2"}

(***************************************************************************)
(* Token codec (xsrftoken.Generate / xsrftoken.Valid).                     *)
(***************************************************************************)
\* validity window of a token, in clock ticks (24 hours)
Timeout == 2

\* the keyed digest of "userID:actionID:t" under key
Mac(key, userID, actionID, t) == <<key, userID, actionID, t>>

NoMac == <<"", "", "", 0>>

\* the encoding of a digest and a timestamp as one string
Encode(mac, t) == [raw |-> "tok", mac |-> mac, ts |-> t]

\* the empty string
Empty == [raw |-> "", mac |-> NoMac, ts |-> 0]

\* a string that is not the encoding of anything
Garbage == [raw |-> "garbage", mac |-> NoMac, ts |-> 0]

\* a string decodes when it is the encoding of a digest and a timestamp
Decodes(token) == token.raw = "tok"

\* derive: the token for (key, userID, actionID) minted at time t
xsrfGenerate(key, userID, actionID, t) == Encode(Mac(key, userID, actionID, t), t)

\* the embedded timestamp is within the validity window relative to clock
InWindow(ts, clock) == ts <= clock /\ clock - ts < Timeout

\* verify: decode, check the window, recompute the token for the embedded
\* timestamp and compare
xsrfValid(token, key, userID, actionID, clock) ==
    /\ Decodes(token)
    /\ InWindow(token.ts, clock)
    /\ token = xsrfGenerate(key, userID, actionID, token.ts)

(***************************************************************************)
(* type csrf and its methods.                                              *)
(***************************************************************************)
csrf(token, id, secret) == [Token |-> token, Id |-> id, Secret |-> secret]

GetToken(c) == c.Token

\* ValidToken with the secret and the id passed in each other's place
ValidToken_swapped(c, t, clock) == xsrfValid(t, c.Id, c.Secret, "POST", clock)

\* ValidToken that accepts the context's own token without verifying it
ValidToken_fastPath(c, t, clock) ==
    (t # Empty /\ t = c.Token) \/ xsrfValid(t, c.Secret, c.Id, "POST", clock)

\* ValidToken that accepts a token only the first time it is presented
ValidToken_once(c, t, clock) ==
    xsrfValid(t, c.Secret, c.Id, "POST", clock) /\ t # accepted.token

\* ValidToken that verifies under the action label "GET"
ValidToken_get(c, t, clock) == xsrfValid(t, c.Secret, c.Id, "GET", clock)

ValidToken(c, t, clock) == xsrfValid(t, c.Secret, c.Id, "POST", clock)

(***************************************************************************)
(* Options, session values, requests and responses.                        *)
(***************************************************************************)
Options == [Secret : Secrets, SetHeader : BOOLEAN, SetCookie : BOOLEAN,
            Secure : BOOLEAN]

\* the value the session holds under SessionKey: nothing, a string, or a
\* value of another type
NilValue == [type |-> "nil", str |-> ""]

IntValue == [type |-> "int", str |-> ""]

StringValue(s) == [type |-> "string", str |-> s]

SessionValues == {NilValue, IntValue} \cup {StringValue(u) : u \in Ids}

\* hosts, as sequences of characters
Hosts == {<<"a", ".", "b", ":", "8">>, <<"_">>}

ApiKeys == {"", "key"}

NoResponse == [status |-> 0, body |-> "", cookies |-> <<>>, xcsrftoken |-> <<>>]

NoRequest == [method |-> "", apikey |-> "", cookie |-> Empty,
              host |-> <<>>, header |-> Empty, form |-> Empty]

(***************************************************************************)
(* const domainReg and regexp.Match(domainReg, domain).                    *)
(* The pattern is the literal character "/", the assertion "beginning of   *)
(* text", the host name shape, the assertion "end of text" and the literal *)
(* character "/"; regexp.Match looks for a match anywhere in the text.     *)
(***************************************************************************)
AlNum == {"a", "b", "8"}

\* \.?label(\.label)* where a label is made of letters, digits and "-" and
\* starts and ends with a letter or digit, matched against d[from+1 .. to]
HostShape(d, from, to) ==
    LET first == IF from < to /\ d[from + 1] = "." THEN from + 2 ELSE from + 1
    IN  /\ first <= to
        /\ d[first] \in AlNum
        /\ d[to] \in AlNum
        /\ \A i \in first .. to : d[i] \in AlNum \cup {"-", "."}
        /\ \A i \in first .. to :
              d[i] = "." => (d[i - 1] \in AlNum /\ d[i + 1] \in AlNum)

BeginText(pos) == pos = 0

EndText(d, pos) == pos = Len(d)

domainReg(d) ==
    \E p \in 0 .. Len(d) - 1 : \E q \in p + 1 .. Len(d) - 1 :
        /\ d[p + 1] = "/"
        /\ BeginText(p + 1)
        /\ HostShape(d, p + 1, q)
        /\ EndText(d, q)
        /\ d[q + 1] = "/"

\* strings.Split(r.Host, ":")[0]
RECURSIVE SplitHost(_)
SplitHost(h) ==
    IF h = <<>> \/ Head(h) = ":" THEN <<>> ELSE <<Head(h)>> \o SplitHost(Tail(h))

(***************************************************************************)
(* func Generate: the handler run on every request.  It yields the context *)
(* mapped for the request and what it writes to the response.              *)
(***************************************************************************)
\* expire := time.Now().AddDate(0, 0, 1), in clock ticks
OneDay == 2

Cookie(token, o, r, clock) ==
    LET split == SplitHost(r.host)
        domain == IF domainReg(split) THEN split ELSE <<>>
    IN  [Name |-> "_csrf", Value |-> token, Path |-> "/", Domain |-> domain,
         Expires |-> clock + OneDay, Secure |-> o.Secure, HttpOnly |-> FALSE]

\* the subject id Generate takes from the session value: none when the
\* value is absent or is not a string
Subject_anyType(s) ==
    IF s.type = "nil" THEN [ok |-> FALSE, id |-> ""]
    ELSE [ok |-> TRUE, id |-> s.str]

Subject_noId(s) ==
    IF s.type = "nil" THEN [ok |-> FALSE, id |-> ""]
    ELSE IF s.type # "string" THEN [ok |-> FALSE, id |-> ""]
    ELSE [ok |-> TRUE, id |-> ""]

Subject(s) ==
    IF s.type = "nil" THEN [ok |-> FALSE, id |-> ""]
    ELSE IF s.type # "string" THEN [ok |-> FALSE, id |-> ""]
    ELSE [ok |-> TRUE, id |-> s.str]

\* the requests on which Generate issues a token
Issues_anyGet(r) == r.method = "GET"

Issues(r) == r.method = "GET" /\ r.apikey = ""

\* Generate that reuses the incoming cookie only when it verifies
Generate_verifiedReuse(o, s, r, w, clock) ==
    LET x0 == csrf(Empty, "", o.Secret)
        uid == Subject(s)
    IN  IF ~uid.ok THEN [x |-> x0, w |-> w, mapped |-> TRUE]
        ELSE
          LET x1 == csrf(Empty, uid.id, o.Secret)
          IN  IF Issues(r)
              THEN
                LET reuse == r.cookie # Empty /\ ValidToken(x1, r.cookie, clock)
                    token == IF reuse THEN r.cookie
                             ELSE xsrfGenerate(x1.Secret, x1.Id, "POST", clock)
                    w1 == IF ~reuse /\ o.SetCookie
                          THEN [w EXCEPT !.cookies =
                                    Append(@, Cookie(token, o, r, clock))]
                          ELSE w
                    w2 == IF o.SetHeader
                          THEN [w1 EXCEPT !.xcsrftoken = Append(@, token)]
                          ELSE w1
                IN  [x |-> csrf(token, x1.Id, x1.Secret), w |-> w2, mapped |-> TRUE]
              ELSE [x |-> x1, w |-> w, mapped |-> TRUE]

\* Generate that writes the cookie also when it reuses the incoming one
Generate_cookieAlways(o, s, r, w, clock) ==
    LET x0 == csrf(Empty, "", o.Secret)
        uid == Subject(s)
    IN  IF ~uid.ok THEN [x |-> x0, w |-> w, mapped |-> TRUE]
        ELSE
          LET x1 == csrf(Empty, uid.id, o.Secret)
          IN  IF Issues(r)
              THEN
                LET reuse == r.cookie # Empty
                    token == IF reuse THEN r.cookie
                             ELSE xsrfGenerate(x1.Secret, x1.Id, "POST", clock)
                    w1 == IF o.SetCookie
                          THEN [w EXCEPT !.cookies =
                                    Append(@, Cookie(token, o, r, clock))]
                          ELSE w
                    w2 == IF o.SetHeader
                          THEN [w1 EXCEPT !.xcsrftoken = Append(@, token)]
                          ELSE w1
                IN  [x |-> csrf(token, x1.Id, x1.Secret), w |-> w2, mapped |-> TRUE]
              ELSE [x |-> x1, w |-> w, mapped |-> TRUE]

\* Generate that adds the response header only when it mints
Generate_headerOnMint(o, s, r, w, clock) ==
    LET x0 == csrf(Empty, "", o.Secret)
        uid == Subject(s)
    IN  IF ~uid.ok THEN [x |-> x0, w |-> w, mapped |-> TRUE]
        ELSE
          LET x1 == csrf(Empty, uid.id, o.Secret)
          IN  IF Issues(r)
              THEN
                LET reuse == r.cookie # Empty
                    token == IF reuse THEN r.cookie
                             ELSE xsrfGenerate(x1.Secret, x1.Id, "POST", clock)
                    w1 == IF ~reuse /\ o.SetCookie
                          THEN [w EXCEPT !.cookies =
                                    Append(@, Cookie(token, o, r, clock))]
                          ELSE w
                    w2 == IF ~reuse /\ o.SetHeader
                          THEN [w1 EXCEPT !.xcsrftoken = Append(@, token)]
                          ELSE w1
                IN  [x |-> csrf(token, x1.Id, x1.Secret), w |-> w2, mapped |-> TRUE]
              ELSE [x |-> x1, w |-> w, mapped |-> TRUE]

Generate(o, s, r, w, clock) ==
    LET x0 == csrf(Empty, "", o.Secret)
        uid == Subject(s)
    IN  IF ~uid.ok THEN [x |-> x0, w |-> w, mapped |-> TRUE]
        ELSE
          LET x1 == csrf(Empty, uid.id, o.Secret)
          IN  IF Issues(r)
              THEN
                LET reuse == r.cookie # Empty
                    token == IF reuse THEN r.cookie
                             ELSE xsrfGenerate(x1.Secret, x1.Id, "POST", clock)
                    w1 == IF ~reuse /\ o.SetCookie
                          THEN [w EXCEPT !.cookies =
                                    Append(@, Cookie(token, o, r, clock))]
                          ELSE w
                    w2 == IF o.SetHeader
                          THEN [w1 EXCEPT !.xcsrftoken = Append(@, token)]
                          ELSE w1
                IN  [x |-> csrf(token, x1.Id, x1.Secret), w |-> w2, mapped |-> TRUE]
              ELSE [x |-> x1, w |-> w, mapped |-> TRUE]

(***************************************************************************)
(* func Validate: the route middleware of an unsafe route.  It yields the  *)
(* response after it ran.                                                  *)
(***************************************************************************)
Error(w, msg, code) == [w EXCEPT !.status = code, !.body = msg]

StatusBadRequest == 400

\* Validate that looks at the form field before the header
Validate_formFirst(r, w, c, clock) ==
    IF r.form # Empty
    THEN IF ~ValidToken(c, r.form, clock)
         THEN Error(w, "Invalid _csrf token", StatusBadRequest)
         ELSE w
    ELSE IF r.header # Empty
    THEN IF ~ValidToken(c, r.header, clock)
         THEN Error(w, "Invalid X-CSRFToken", StatusBadRequest)
         ELSE w
    ELSE Error(w, "Bad Request", StatusBadRequest)

\* Validate without the final http.Error
Validate_noDefault(r, w, c, clock) ==
    IF r.header # Empty
    THEN IF ~ValidToken(c, r.header, clock)
         THEN Error(w, "Invalid X-CSRFToken", StatusBadRequest)
         ELSE w
    ELSE IF r.form # Empty
    THEN IF ~ValidToken(c, r.form, clock)
         THEN Error(w, "Invalid _csrf token", StatusBadRequest)
         ELSE w
    ELSE w

\* Validate whose form branch verifies the header value
Validate_formBranchHeader(r, w, c, clock) ==
    IF r.header # Empty
    THEN IF ~ValidToken(c, r.header, clock)
         THEN Error(w, "Invalid X-CSRFToken", StatusBadRequest)
         ELSE w
    ELSE IF r.form # Empty
    THEN IF ~ValidToken(c, r.header, clock)
         THEN Error(w, "Invalid _csrf token", StatusBadRequest)
         ELSE w
    ELSE Error(w, "Bad Request", StatusBadRequest)

\* Validate whose header branch returns without http.Error
Validate_headerSilent(r, w, c, clock) ==
    IF r.header # Empty
    THEN w
    ELSE IF r.form # Empty
    THEN IF ~ValidToken(c, r.form, clock)
         THEN Error(w, "Invalid _csrf token", StatusBadRequest)
         ELSE w
    ELSE Error(w, "Bad Request", StatusBadRequest)

Validate(r, w, c, clock) ==
    IF r.header # Empty
    THEN IF ~ValidToken(c, r.header, clock)
         THEN Error(w, "Invalid X-CSRFToken", StatusBadRequest)
         ELSE w
    ELSE IF r.form # Empty
    THEN IF ~ValidToken(c, r.form, clock)
         THEN Error(w, "Invalid _csrf token", StatusBadRequest)
         ELSE w
    ELSE Error(w, "Bad Request", StatusBadRequest)

(***************************************************************************)
(* The requests of the model.                                              *)
(***************************************************************************)
OtherSecret(k) == CHOOSE k2 \in Secrets : k2 # k

\* a token whose embedded timestamp was changed
TamperTs(token) == [token EXCEPT !.ts = (@ + 1) % (MaxTime + 1)]

\* a token whose digest was changed
TamperMac(token) == [token EXCEPT !.mac = <<"forged", @[2], @[3], @[4]>>]

\* tokens minted under the server's secret, for any subject at any time
OwnTokens(o) == {xsrfGenerate(o.Secret, u, "POST", t) : u \in Ids, t \in Times}

HeaderCands(o) ==
    {Empty, Garbage} \cup OwnTokens(o)
    \cup {xsrfGenerate(OtherSecret(o.Secret), "u1", "POST", 0),
          xsrfGenerate(o.Secret, "u1", "GET", 0),
          TamperTs(xsrfGenerate(o.Secret, "u1", "POST", 0)),
          TamperMac(xsrfGenerate(o.Secret, "u1", "POST", 0))}

FormCands(o) ==
    {Empty, Garbage}
    \cup {xsrfGenerate(o.Secret, u, "POST", t) : u \in {"", "u1"}, t \in {0, MaxTime}}

CookieCands(o) == {Empty, Garbage, xsrfGenerate(o.Secret, "u1", "POST", 0)}

\* GET requests go to a route without Validate, which reads neither the
\* X-CSRFToken header nor the form.  POST requests vary in what Generate reads
\* or in what Validate reads.
Requests(o) ==
    [method : {"GET"}, apikey : ApiKeys, cookie : CookieCands(o), host : Hosts,
     header : {Empty}, form : {Empty}]
    \cup
    [method : {"POST"}, apikey : ApiKeys, cookie : CookieCands(o), host : Hosts,
     header : {Empty}, form : {Empty, xsrfGenerate(o.Secret, "u1", "POST", 0)}]
    \cup
    [method : {"POST"}, apikey : {""}, cookie : {Empty}, host : {<<"a", ".", "b", ":", "8">>},
     header : HeaderCands(o), form : FormCands(o)]

(***************************************************************************)
(* The state machine.                                                      *)
(***************************************************************************)
\* the token GetToken returned on the client's last GET that got one: the
\* time of that GET, the subject id of its context, and whether Generate
\* minted the token on that GET
NoHeld == [token |-> Empty, at |-> 0, id |-> "", minted |-> FALSE]

\* the token Validate accepted last, the subject id of the context that
\* accepted it, and whether it was accepted once or again
NoAccepted == [token |-> Empty, id |-> "", seen |-> "never"]

\* no request runs Generate concurrently
NoConc == <<>>

Init ==
    /\ opts \in Options
    /\ session = NilValue
    /\ now = 0
    /\ req = NoRequest
    /\ x = csrf(Empty, "", "")
    /\ mapped = FALSE
    /\ resp = NoResponse
    /\ pc = "idle"
    /\ invoked = 0
    /\ held = NoHeld
    /\ accepted = NoAccepted
    /\ conc = NoConc

\* time passes
Tick ==
    /\ now < MaxTime
    /\ now' = now + 1
    /\ UNCHANGED <<opts, session, req, x, mapped, resp, pc, invoked>>
    /\ UNCHANGED aux

\* between requests the application sets or clears the session's subject id
SessionSet ==
    /\ pc = "idle"
    /\ \E v \in SessionValues : session' = v
    /\ UNCHANGED <<opts, now, req, x, mapped, resp, pc, invoked>>
    /\ UNCHANGED aux

\* Generate that writes the subject id it resolved back to the session
GenerateOn_writesSession(R) ==
    /\ pc = "idle"
    /\ \E r \in R :
          LET out == Generate(opts, session, r, NoResponse, now)
          IN  /\ req' = r
              /\ x' = out.x
              /\ resp' = out.w
              /\ mapped' = out.mapped
              /\ session' = StringValue(out.x.Id)
    /\ invoked' = 0
    /\ pc' = "generated"
    /\ UNCHANGED <<opts, now>>

\* a request out of R arrives and Generate, the first handler of every
\* chain, runs
GenerateOn(R) ==
    /\ pc = "idle"
    /\ \E r \in R :
          LET out == Generate(opts, session, r, NoResponse, now)
          IN  /\ req' = r
              /\ x' = out.x
              /\ resp' = out.w
              /\ mapped' = out.mapped
    /\ invoked' = 0
    /\ pc' = "generated"
    /\ UNCHANGED <<opts, session, now>>

GenerateStep ==
    /\ GenerateOn(Requests(opts))
    /\ UNCHANGED aux

\* the route is the unsafe one: Validate runs next
ValidateRun ==
    /\ pc = "generated"
    /\ req.method = "POST"
    /\ resp.status = 0
    /\ resp' = Validate(req, resp, x, now)
    /\ pc' = "validated"
    /\ UNCHANGED <<opts, session, now, req, x, mapped, invoked>>

ValidateStep ==
    /\ ValidateRun
    /\ UNCHANGED aux

\* the chain reaches the route's real handler
RealHandler ==
    /\ \/ pc = "generated" /\ req.method = "GET"
       \/ pc = "validated"
    /\ resp.status = 0
    /\ invoked' = invoked + 1
    /\ resp' = [resp EXCEPT !.status = 200, !.body = "ok"]
    /\ pc' = "served"
    /\ UNCHANGED <<opts, session, now, req, x, mapped>>
    /\ UNCHANGED aux

\* a handler has written the response: the chain stops
Stop ==
    /\ pc = "validated"
    /\ resp.status # 0
    /\ pc' = "rejected"
    /\ UNCHANGED <<opts, session, now, req, x, mapped, resp, invoked>>
    /\ UNCHANGED aux

\* the request ends and its context is dropped
Finish ==
    /\ pc \in {"served", "rejected"}
    /\ req' = NoRequest
    /\ x' = csrf(Empty, "", "")
    /\ mapped' = FALSE
    /\ resp' = NoResponse
    /\ invoked' = 0
    /\ pc' = "idle"
    /\ UNCHANGED <<opts, session, now>>
    /\ UNCHANGED aux

Next ==
    \/ Tick
    \/ SessionSet
    \/ GenerateStep
    \/ ValidateStep
    \/ RealHandler
    \/ Stop
    \/ Finish

Spec == Init /\ [][Next]_vars

(***************************************************************************)
(* One client over time.  The client sends back what it was given: on a    *)
(* GET the cookie it holds (or one planted in its jar), on a POST the      *)
(* token GetToken returned on its last GET or the token that was accepted  *)
(* last.                                                                   *)
(***************************************************************************)
SessionOptions == {o \in Options : o.SetHeader /\ o.SetCookie /\ ~o.Secure}

SessionRequests(h, a) ==
    [method : {"GET"}, apikey : {""}, cookie : {Empty, Garbage, h.token},
     host : {<<"a", ".", "b", ":", "8">>}, header : {Empty}, form : {Empty}]
    \cup
    [method : {"POST"}, apikey : {""}, cookie : {Empty},
     host : {<<"a", ".", "b", ":", "8">>},
     header : {Empty, h.token, a.token}, form : {Empty, h.token}]

InitSession ==
    /\ Init
    /\ opts \in SessionOptions

\* the token Validate looks at
Presented(r) == IF r.header # Empty THEN r.header ELSE r.form

\* Generate runs; the handler of a GET passes GetToken() to the client
SessionGenerate ==
    /\ GenerateOn(SessionRequests(held, accepted))
    /\ held' = IF req'.method = "GET" /\ GetToken(x') # Empty
               THEN [token |-> GetToken(x'), at |-> now, id |-> x'.Id,
                     minted |-> req'.cookie = Empty]
               ELSE held
    /\ UNCHANGED <<accepted, conc>>

\* Validate runs; an accepted token is remembered
SessionValidate ==
    /\ ValidateRun
    /\ accepted' = IF resp'.status = 0
                   THEN [token |-> Presented(req), id |-> x.Id,
                         seen |-> IF accepted.token = Presented(req)
                                       /\ accepted.id = x.Id
                                  THEN "again" ELSE "once"]
                   ELSE accepted
    /\ UNCHANGED <<held, conc>>

NextSession ==
    \/ Tick
    \/ SessionSet
    \/ SessionGenerate
    \/ SessionValidate
    \/ RealHandler
    \/ Stop
    \/ Finish

SpecSession == InitSession /\ [][NextSession]_vars

(***************************************************************************)
(* Concurrent GET requests of one subject.  Each request runs the body of  *)
(* Generate in steps: allocate and map the context, resolve the subject,   *)
(* mint, deliver.  The steps of different requests interleave freely with  *)
(* each other and with the clock.                                          *)
(***************************************************************************)
\* number of requests that run Generate concurrently
NReq == 2

Reqs == 1 .. NReq

\* the context a request works on: one allocated by the handler itself
Slot_shared(i) == 1

Slot(i) == i

\* every concurrent request is a plain GET without cookie
ConcRequest == [method |-> "GET", apikey |-> "", cookie |-> Empty,
                host |-> <<"a", ".", "b", ":", "8">>, header |-> Empty,
                form |-> Empty]

ConcInit ==
    [req |-> [i \in Reqs |-> [pc |-> "new", at |-> 0, token |-> Empty,
                              w |-> NoResponse]],
     heap |-> [k \in Reqs |-> csrf(Empty, "", "")]]

InitConc ==
    /\ opts \in Options
    /\ session \in {StringValue(u) : u \in Ids}
    /\ now = 0
    /\ req = NoRequest
    /\ x = csrf(Empty, "", "")
    /\ mapped = FALSE
    /\ resp = NoResponse
    /\ pc = "idle"
    /\ invoked = 0
    /\ held = NoHeld
    /\ accepted = NoAccepted
    /\ conc = ConcInit

ConcFrame == UNCHANGED <<opts, session, now, req, x, mapped, resp, pc, invoked,
                         held, accepted>>

\* x := &csrf{Secret: opts.Secret}; c.MapTo(x, ...)
ConcMap(i) ==
    /\ conc.req[i].pc = "new"
    /\ conc' = [conc EXCEPT !.heap[Slot(i)] = csrf(Empty, "", opts.Secret),
                            !.req[i].pc = "mapped"]
    /\ ConcFrame

\* uid := s.Get(opts.SessionKey) and the type switch
ConcSubject(i) ==
    /\ conc.req[i].pc = "mapped"
    /\ LET uid == Subject(session)
       IN  conc' = IF uid.ok
                   THEN [conc EXCEPT !.heap[Slot(i)].Id = uid.id,
                                     !.req[i].pc = "resolved"]
                   ELSE [conc EXCEPT !.req[i].pc = "done"]
    /\ ConcFrame

\* x.Token = xsrftoken.Generate(x.Secret, x.Id, "POST")
ConcMint(i) ==
    /\ conc.req[i].pc = "resolved"
    /\ LET c == conc.heap[Slot(i)]
           token == xsrfGenerate(c.Secret, c.Id, "POST", now)
       IN  conc' = IF Issues(ConcRequest)
                   THEN [conc EXCEPT !.heap[Slot(i)].Token = token,
                                     !.req[i].token = token,
                                     !.req[i].at = now,
                                     !.req[i].pc = "minted"]
                   ELSE [conc EXCEPT !.req[i].pc = "done"]
    /\ ConcFrame

\* http.SetCookie and w.Header().Add with x.Token
ConcDeliver(i) ==
    /\ conc.req[i].pc = "minted"
    /\ LET c == conc.heap[Slot(i)]
           w1 == IF opts.SetCookie
                 THEN [conc.req[i].w EXCEPT !.cookies =
                          Append(@, Cookie(c.Token, opts, ConcRequest, now))]
                 ELSE conc.req[i].w
           w2 == IF opts.SetHeader
                 THEN [w1 EXCEPT !.xcsrftoken = Append(@, c.Token)]
                 ELSE w1
       IN  conc' = [conc EXCEPT !.req[i].w = w2, !.req[i].pc = "done"]
    /\ ConcFrame

\* time passes while the requests run
ConcTick ==
    /\ now < MaxTime
    /\ now' = now + 1
    /\ UNCHANGED <<opts, session, req, x, mapped, resp, pc, invoked, aux>>

NextConc ==
    \/ ConcTick
    \/ \E i \in Reqs : ConcMap(i)
    \/ \E i \in Reqs : ConcSubject(i)
    \/ \E i \in Reqs : ConcMint(i)
    \/ \E i \in Reqs : ConcDeliver(i)

SpecConc == InitConc /\ [][NextConc]_vars

TypeOK ==
    /\ opts \in Options
    /\ session \in SessionValues
    /\ now \in Times
    /\ pc \in {"idle", "generated", "validated", "served", "rejected"}
    /\ invoked \in {0, 1}
    /\ mapped \in BOOLEAN
    /\ resp.status \in {0, 200, StatusBadRequest}

(***************************************************************************)
(* Helpers of the properties.                                              *)
(***************************************************************************)
OptionsOf(s) == [Secret |-> s, SetHeader |-> FALSE, SetCookie |-> FALSE,
                 Secure |-> FALSE]

PlainRequest(m) == [method |-> m, apikey |-> "", cookie |-> Empty,
                    host |-> <<"a", ".", "b">>, header |-> Empty, form |-> Empty]

\* the token Generate mints for subject u under secret s on a GET at time t
MintedBy(s, u, t) ==
    GetToken(Generate(OptionsOf(s), StringValue(u), PlainRequest("GET"),
                      NoResponse, t).x)

\* the context Generate maps on an unsafe request of subject u under secret s
ContextOf(s, u) ==
    Generate(OptionsOf(s), StringValue(u), PlainRequest("POST"), NoResponse, now).x

\* the step in which Validate runs
ValidateRuns == pc = "generated" /\ pc' = "validated"

(***************************************************************************)
(* C1: round trip.  A token minted by Generate for (s, u) at time t is     *)
(* accepted by ValidToken on a context holding s and u, at every time      *)
(* within the validity window of t.                                        *)
(***************************************************************************)
C1_RoundTrip ==
    \A s \in Secrets : \A u \in Ids : \A t \in Times :
        InWindow(t, now) =>
            /\ ValidToken(ContextOf(s, u), MintedBy(s, u, t), now)
            /\ (x.Secret = s /\ x.Id = u) => ValidToken(x, MintedBy(s, u, t), now)

\* a request of subject u1 presented a token minted one tick earlier and
\* was served
C1_Witness ==
    /\ pc = "served"
    /\ req.method = "POST"
    /\ now = 1
    /\ x.Id = "u1"
    /\ req.header = MintedBy(opts.Secret, "u1", 0)

(***************************************************************************)
(* C2: header precedence.  When the X-CSRFToken header is not empty,       *)
(* Validate decides on the header alone: a valid header passes whatever    *)
(* the form holds, an invalid header gets 400 "Invalid X-CSRFToken" even   *)
(* when the form holds a valid token.                                      *)
(***************************************************************************)
C2_HeaderPrecedence ==
    [][(ValidateRuns /\ req.header # Empty) =>
          IF ValidToken(x, req.header, now)
          THEN resp' = resp
          ELSE /\ resp'.status = 400
               /\ resp'.body = "Invalid X-CSRFToken"]_vars

\* an invalid header was rejected although the form held a valid token
C2_Witness ==
    /\ pc = "rejected"
    /\ req.header = Garbage
    /\ ValidToken(x, req.form, now)
    /\ resp.status = 400
    /\ resp.body = "Invalid X-CSRFToken"

(***************************************************************************)
(* C3: missing token.  With neither a header nor a form token, Validate    *)
(* rejects with 400 "Bad Request", whatever the context holds.             *)
(***************************************************************************)
C3_MissingToken ==
    /\ (pc \in {"validated", "rejected", "served"} /\ req.method = "POST"
            /\ req.header = Empty /\ req.form = Empty) =>
          /\ pc # "served"
          /\ resp.status = 400
          /\ resp.body = "Bad Request"
    /\ \A s \in Secrets : \A u \in Ids : \A tok \in {Empty, x.Token, MintedBy(s, u, now)} :
          LET w == Validate(PlainRequest("POST"), NoResponse, csrf(tok, u, s), now)
          IN  w.status = 400 /\ w.body = "Bad Request"

\* a request of a logged-in subject without any token was rejected
C3_Witness ==
    /\ pc = "rejected"
    /\ x.Id = "u1"
    /\ req.header = Empty
    /\ req.form = Empty
    /\ resp.body = "Bad Request"

(***************************************************************************)
(* C4: form fallback.  When the header is empty and the _csrf form field   *)
(* is not, the request passes iff ValidToken accepts the form value;       *)
(* otherwise the response is 400 "Invalid _csrf token".                    *)
(***************************************************************************)
C4_FormFallback ==
    [][(ValidateRuns /\ req.header = Empty /\ req.form # Empty) =>
          IF ValidToken(x, req.form, now)
          THEN resp' = resp
          ELSE /\ resp'.status = 400
               /\ resp'.body = "Invalid _csrf token"]_vars

\* a request with a valid form token and no header was served
C4_Witness ==
    /\ pc = "served"
    /\ req.method = "POST"
    /\ req.header = Empty
    /\ req.form = MintedBy(opts.Secret, x.Id, 0)
    /\ now <= 1

(***************************************************************************)
(* C5: rejection is terminal.  Validate runs once per request; in each of  *)
(* the three rejection branches it writes a 400; the real handler is       *)
(* invoked iff Validate wrote no error response.                           *)
(***************************************************************************)
Rejects(r, c, clock) ==
    \/ r.header # Empty /\ ~ValidToken(c, r.header, clock)
    \/ r.header = Empty /\ r.form # Empty /\ ~ValidToken(c, r.form, clock)
    \/ r.header = Empty /\ r.form = Empty

C5_RejectionTerminal ==
    [][/\ ValidateRuns =>
            /\ Rejects(req, x, now) => resp'.status = 400
            /\ ~Rejects(req, x, now) => resp'.status = 0
       /\ (pc = "validated" /\ pc' # "validated") =>
            \/ resp.status = 0 /\ pc' = "served" /\ invoked' = 1
            \/ resp.status = 400 /\ pc' = "rejected" /\ invoked' = 0
                 /\ resp' = resp
       /\ (pc = "rejected") => (pc' \in {"rejected", "idle"} /\ invoked' = 0)
       /\ (req.method = "POST" /\ invoked' > invoked) =>
            (pc = "validated" /\ resp.status = 0 /\ invoked = 0)]_vars

\* a request with an invalid form token was rejected without reaching the
\* real handler
C5_Witness ==
    /\ pc = "rejected"
    /\ invoked = 0
    /\ req.header = Empty
    /\ req.form = Garbage
    /\ resp.status = 400

(***************************************************************************)
(* C6: subject binding.  A token minted for subject u1 under secret s is   *)
(* rejected by ValidToken on a context of another subject u2 under s, at   *)
(* every time.                                                             *)
(***************************************************************************)
C6_SubjectBinding ==
    \A s \in Secrets : \A u1 \in Ids : \A t \in Times :
        /\ \A u2 \in Ids \ {u1} :
              ~ValidToken(ContextOf(s, u2), MintedBy(s, u1, t), now)
        /\ (pc # "idle" /\ x.Secret = s /\ x.Id # u1) =>
              ~ValidToken(x, MintedBy(s, u1, t), now)

\* subject u1 presented a fresh token of subject u2 and was rejected
C6_Witness ==
    /\ pc = "rejected"
    /\ x.Id = "u1"
    /\ req.header = MintedBy(opts.Secret, "u2", 0)
    /\ now = 0
    /\ resp.body = "Invalid X-CSRFToken"

(***************************************************************************)
(* C7: expiry.  A token whose mint time is older than the validity window  *)
(* is rejected by ValidToken, and by Validate with a 400, even when secret *)
(* and subject match; time does not go back, so an expired token is        *)
(* rejected at every later time too.                                       *)
(***************************************************************************)
Expired(t, clock) == clock - t >= Timeout

\* token was minted by Generate at time t
MintedAt(token, t) == \E s \in Secrets : \E u \in Ids : token = MintedBy(s, u, t)

ExpiredToken(token, clock) == \E t \in Times : MintedAt(token, t) /\ Expired(t, clock)

C7_Expiry ==
    [][/\ now' >= now
       /\ \A s \in Secrets : \A u \in Ids : \A t \in Times :
            Expired(t, now) =>
               \A later \in now .. MaxTime :
                  /\ ~ValidToken(ContextOf(s, u), MintedBy(s, u, t), later)
                  /\ Validate([PlainRequest("POST") EXCEPT !.header = MintedBy(s, u, t)],
                              NoResponse, ContextOf(s, u), later).status = 400
       /\ ExpiredToken(x.Token, now) => ~ValidToken(x, x.Token, now)
       /\ (ValidateRuns /\ ExpiredToken(req.header, now)) => resp'.status = 400
       /\ (ValidateRuns /\ req.header = Empty /\ ExpiredToken(req.form, now)) =>
             resp'.status = 400]_vars

\* subject u1 presented its own token two ticks after it was minted and was
\* rejected
C7_Witness ==
    /\ pc = "rejected"
    /\ x.Id = "u1"
    /\ now = 2
    /\ req.header = MintedBy(opts.Secret, "u1", 0)
    /\ resp.status = 400
    /\ resp.body = "Invalid X-CSRFToken"

(***************************************************************************)
(* C8: soundness.  ValidToken is false for every string that Generate does *)
(* not mint under the context's own secret and subject id: strings that    *)
(* do not decode, tokens of another key, subject or action label, and      *)
(* tokens whose digest or timestamp was changed.                           *)
(***************************************************************************)
TokenStrings ==
    {Empty, Garbage}
    \cup {Encode(Mac(k, u, a, m), t) :
              k \in Secrets \cup {"forged"}, u \in Ids, a \in {"POST", "GET"},
              m \in Times, t \in Times}

MintedFor(c) == {MintedBy(c.Secret, c.Id, t) : t \in Times}

C8_Soundness ==
    /\ pc = "idle" =>
          \A s \in Secrets : \A u \in Ids : \A cand \in TokenStrings :
              cand \notin MintedFor(ContextOf(s, u)) =>
                  ~ValidToken(ContextOf(s, u), cand, now)
    /\ pc # "idle" =>
          \A cand \in {req.header, req.form, req.cookie, x.Token} :
              cand \notin MintedFor(x) => ~ValidToken(x, cand, now)

\* subject u1 presented its own fresh token with a changed digest and was
\* rejected
C8_Witness ==
    /\ pc = "rejected"
    /\ x.Id = "u1"
    /\ now = 0
    /\ req.header = TamperMac(MintedBy(opts.Secret, "u1", 0))
    /\ resp.body = "Invalid X-CSRFToken"

(***************************************************************************)
(* C9: silent no-op without a subject.  When the session value is absent   *)
(* or not a string, Generate on a GET sets no cookie and no header, leaves *)
(* the context's token and id empty, writes no error, and still maps the   *)
(* context, whatever the options and the incoming cookie are.              *)
(***************************************************************************)
C9_NoSubjectNoOp ==
    (pc # "idle" /\ req.method = "GET" /\ session.type # "string") =>
        /\ resp.cookies = <<>>
        /\ resp.xcsrftoken = <<>>
        /\ GetToken(x) = Empty
        /\ x.Id = ""
        /\ x.Secret = opts.Secret
        /\ mapped
        /\ resp.status # 400
        /\ pc = "generated" => resp = NoResponse

\* a GET with a cookie, under options that deliver by cookie and header,
\* was served without a token because the session value is not a string
C9_Witness ==
    /\ pc = "served"
    /\ req.method = "GET"
    /\ session = IntValue
    /\ opts.SetCookie
    /\ opts.SetHeader
    /\ req.cookie # Empty
    /\ GetToken(x) = Empty

(***************************************************************************)
(* C10: issuance gating.  Generate puts a token in the context, sets a     *)
(* cookie or a response header only on a GET without X-API-Key; on every   *)
(* other request the token stays empty and nothing is written.             *)
(***************************************************************************)
C10_IssuanceGating ==
    (pc # "idle" /\ (req.method # "GET" \/ req.apikey # "")) =>
        /\ GetToken(x) = Empty
        /\ resp.cookies = <<>>
        /\ resp.xcsrftoken = <<>>

\* a GET of subject u1 that carries an API key and a cookie got no token
\* under options that deliver by cookie and header
C10_Witness ==
    /\ pc = "served"
    /\ req.method = "GET"
    /\ req.apikey # ""
    /\ session = StringValue("u1")
    /\ opts.SetCookie
    /\ opts.SetHeader
    /\ req.cookie # Empty
    /\ GetToken(x) = Empty

\* the request is a GET on which Generate issues: a string subject id in
\* the session and no X-API-Key
IssuingGet ==
    /\ pc # "idle"
    /\ req.method = "GET"
    /\ req.apikey = ""
    /\ session.type = "string"

\* the step in which a request arrives and Generate runs
GenerateRuns == pc = "idle" /\ pc' = "generated"

(***************************************************************************)
(* C11: reuse before mint.  On an issuing GET with a non-empty _csrf       *)
(* cookie the context's token is that cookie value, whatever it is; a      *)
(* token is minted only when the cookie is absent or empty.                *)
(***************************************************************************)
C11_ReuseBeforeMint ==
    [][(GenerateRuns /\ req'.method = "GET" /\ req'.apikey = ""
            /\ session.type = "string") =>
          IF req'.cookie # Empty
          THEN GetToken(x') = req'.cookie
          ELSE GetToken(x') = xsrfGenerate(opts.Secret, session.str, "POST", now)]_vars

\* a cookie value that the server never issued became the context's token
C11_Witness ==
    /\ IssuingGet
    /\ pc = "served"
    /\ session = StringValue("u1")
    /\ req.cookie = Garbage
    /\ GetToken(x) = Garbage

(***************************************************************************)
(* C12: cookie delivery.  With SetCookie an issuing GET that mints a token *)
(* writes one _csrf cookie: value the context's token, path "/", Secure as *)
(* configured, HttpOnly false.  An issuing GET that reuses the incoming    *)
(* cookie writes no cookie, and without SetCookie no cookie is written.    *)
(***************************************************************************)
CookieOf(c, token) ==
    /\ c.Name = "_csrf"
    /\ c.Value = token
    /\ c.Path = "/"
    /\ c.Secure = opts.Secure
    /\ c.HttpOnly = FALSE

C12_CookieOnMint ==
    pc # "idle" =>
        IF opts.SetCookie /\ IssuingGet /\ req.cookie = Empty
        THEN /\ Len(resp.cookies) = 1
             /\ CookieOf(resp.cookies[1], GetToken(x))
        ELSE resp.cookies = <<>>

\* the claim as stated: with SetCookie every issuing GET writes the cookie,
\* whether the token was reused or minted
C12_CookieOnEveryIssue ==
    pc # "idle" =>
        IF opts.SetCookie /\ IssuingGet
        THEN /\ Len(resp.cookies) = 1
             /\ CookieOf(resp.cookies[1], GetToken(x))
        ELSE resp.cookies = <<>>

\* a minted token was delivered by cookie with the Secure flag set
C12_Witness ==
    /\ IssuingGet
    /\ pc = "served"
    /\ opts.SetCookie
    /\ opts.Secure
    /\ req.cookie = Empty
    /\ Len(resp.cookies) = 1
    /\ resp.cookies[1].Value = GetToken(x)
    /\ resp.cookies[1].Secure

(***************************************************************************)
(* C13: header delivery.  With SetHeader every issuing GET adds one        *)
(* X-CSRFToken response header whose value is the context's token, minted  *)
(* or reused; without SetHeader the header is never written.               *)
(***************************************************************************)
C13_HeaderDelivery ==
    pc # "idle" =>
        IF opts.SetHeader /\ IssuingGet
        THEN resp.xcsrftoken = <<GetToken(x)>>
        ELSE resp.xcsrftoken = <<>>

\* a token reused from the incoming cookie was delivered by header
C13_Witness ==
    /\ IssuingGet
    /\ pc = "served"
    /\ opts.SetHeader
    /\ req.cookie # Empty
    /\ resp.xcsrftoken = <<req.cookie>>

(***************************************************************************)
(* C17: cookie domain.  Whenever Generate writes the _csrf cookie, its     *)
(* domain is the request's host without the port if that host has the      *)
(* shape of a host name, and is empty otherwise.                           *)
(***************************************************************************)
\* the host has the shape of a host name
HostnameShape(d) == Len(d) > 0 /\ HostShape(d, 0, Len(d))

C17_CookieDomain ==
    \A i \in 1 .. Len(resp.cookies) :
        LET domain == SplitHost(req.host)
        IN  resp.cookies[i].Domain = IF HostnameShape(domain) THEN domain ELSE <<>>

(***************************************************************************)
(* C14: no single-use consumption.  Validating changes nothing that        *)
(* validity depends on; a token that Validate accepted is accepted again   *)
(* on every later unsafe request of the same subject while its validity    *)
(* window lasts.                                                           *)
(***************************************************************************)
C14_NoConsumption ==
    [][ValidateRuns =>
          /\ \A tok \in {req.header, req.form, held.token, accepted.token} :
                ValidToken(x', tok, now') = ValidToken(x, tok, now)
          /\ (accepted.seen # "never" /\ Presented(req) = accepted.token
                  /\ x.Id = accepted.id /\ InWindow(accepted.token.ts, now)) =>
                resp'.status = 0]_vars

\* a token that was accepted before was presented again and the request was
\* served
C14_Witness ==
    /\ pc = "served"
    /\ req.method = "POST"
    /\ accepted.seen = "again"
    /\ req.header = accepted.token
    /\ x.Id = "u1"

(***************************************************************************)
(* C16: no subject, no acceptance.  On an unsafe request whose session     *)
(* holds no string subject id, Validate rejects every token that Generate  *)
(* minted, in the header or in the form field.                             *)
(***************************************************************************)
C16_NoSubjectNoAcceptance ==
    [][(ValidateRuns /\ session.type # "string" /\ held.minted
            /\ Presented(req) = held.token) =>
          resp'.status = 400]_vars

(***************************************************************************)
(* C18: issued tokens are usable.  Within a session of subject u, the      *)
(* non-empty token GetToken returned on a GET is accepted by Validate on a *)
(* later unsafe request of that session within the validity window of      *)
(* that GET.                                                               *)
(***************************************************************************)
C18_IssuedTokensUsable ==
    [][(ValidateRuns /\ held.token # Empty /\ session = StringValue(held.id)
            /\ req.header = held.token /\ InWindow(held.at, now)) =>
          resp'.status = 0]_vars

(***************************************************************************)
(* C19: frame.  No step changes the configured secret and options;         *)
(* Generate and Validate leave the session as it is; Generate fills only   *)
(* the context of the request it runs on; Validate changes neither the     *)
(* context nor the request.                                                *)
(***************************************************************************)
C19_Frame ==
    [][/\ opts' = opts
       /\ (GenerateRuns \/ ValidateRuns) => session' = session
       /\ GenerateRuns => (mapped' /\ x'.Secret = opts.Secret)
       /\ ValidateRuns => (x' = x /\ mapped' = mapped /\ req' = req)]_vars

\* Validate has run on the context Generate made for subject u1 and has
\* accepted the request
C19_Witness ==
    /\ pc = "validated"
    /\ resp.status = 0
    /\ session = StringValue("u1")
    /\ x = csrf(Empty, "u1", opts.Secret)

(***************************************************************************)
(* C15: concurrent minting is safe.  Each of the concurrent GET requests   *)
(* of one subject works on its own context and ends as Generate run alone  *)
(* at its mint time would; every token minted by any of them is accepted   *)
(* by ValidToken for that subject within its window, whatever the others   *)
(* do meanwhile.                                                           *)
(***************************************************************************)
C15_ConcurrentMinting ==
    \A i \in Reqs :
        LET r == conc.req[i]
            c == conc.heap[Slot(i)]
            alone == Generate(opts, session, ConcRequest, NoResponse, r.at)
        IN  /\ r.pc \in {"minted", "done"} =>
                  /\ r.token # Empty
                  /\ c = alone.x
                  /\ GetToken(c) = r.token
                  /\ InWindow(r.at, now) =>
                        ValidToken(csrf(Empty, session.str, opts.Secret),
                                   r.token, now)
            /\ r.pc = "done" =>
                  /\ r.w.xcsrftoken = alone.w.xcsrftoken
                  /\ Len(r.w.cookies) = Len(alone.w.cookies)
                  /\ \A k \in 1 .. Len(r.w.cookies) :
                        r.w.cookies[k].Value = r.token

\* two requests of subject u1 minted one tick apart; both are done and both
\* tokens are valid
C15_Witness ==
    /\ session = StringValue("u1")
    /\ now = 1
    /\ conc.req[1].pc = "done"
    /\ conc.req[2].pc = "done"
    /\ conc.req[1].at = 0
    /\ conc.req[2].at = 1
    /\ conc.req[1].token # conc.req[2].token
    /\ ValidToken(conc.heap[Slot(2)], conc.req[1].token, now)
    /\ ValidToken(conc.heap[Slot(1)], conc.req[2].token, now)

====
